---- MODULE Spec2Model ----
(***************************************************************************)
(* A model of WorkspaceFileResolver (src/src/WorkspaceFileResolver.cpp):   *)
(* the source tree built from a sourcemap, the two path indexes over it,   *)
(* the lookups, the resolution of require expressions, the cascade of the  *)
(* configuration files and the loading of sources.                         *)
(*                                                                         *)
(* Strings and filesystem paths are sequences of tokens; the token "/" is  *)
(* the path separator, every other token stands for a run of characters    *)
(* without a separator.  "game/A" is <<"game", "/", "A">>.                 *)
(***************************************************************************)
EXTENDS Integers, Sequences, FiniteSets, TLC

VARIABLES
    rootSourceNode,             \* the tree (all its nodes), or NoTree
    virtualPathsToSourceNodes,  \* string -> node pointer
    realPathsToSourceNodes,     \* string -> node pointer
    pluginInfo,                 \* TRUE when plugin information is supplied
    denied,                     \* directories the filesystem refuses to search (fixed)
    allocated,                  \* number of trees allocated so far
    pc,                         \* position inside a running updateSourceMap
    pending,                    \* writePathsToMap calls still to run: <<node, base>>
    client,                     \* the client and its configuration, if there is one
    disk,                       \* the files and directories on the disk
    last,                       \* the last call made and what it returned
    configCache,                \* directory -> merged Luau::Config
    configErrors,               \* the (config file, error) pairs kept
    published,                  \* what the client holds of publishDiagnostics
    managedFiles                \* uri -> text of the documents the editor has open

\* what updateSourceMap and resolveModule never touch
fileVars == <<configCache, configErrors, published, managedFiles>>

vars == <<rootSourceNode, virtualPathsToSourceNodes, realPathsToSourceNodes,
          pluginInfo, denied, allocated, pc, pending, client, disk, last,
          configCache, configErrors, published, managedFiles>>

\* std::optional: the empty sequence is std::nullopt, <<x>> holds x
nullopt == <<>>

Some(x) == <<x>>

has_value(o) == o # <<>>

value(o) == o[1]

\* a pointer to a node is <<tree, index>>; tree 0 is never allocated, and
\* rootSourceNode is NoTree while it is null
NoTree == [gen |-> 0, nodes |-> <<>>]

EmptyMap == <<>>

Put(m, k, v) == [x \in DOMAIN m \cup {k} |-> IF x = k THEN v ELSE m[x]]

\* ------------------------------------------------------------------ bounds
\* updateSourceMap builds at most MaxTrees trees in a behaviour
MaxTrees == 2

\* ----------------------------------------------------------------- strings
Sep == "/"

startsWith(str, prefix) ==
    /\ Len(prefix) <= Len(str)
    /\ SubSeq(str, 1, Len(prefix)) = prefix

substr(str, pos) == SubSeq(str, pos + 1, Len(str))

Last(s) == s[Len(s)]

Front(s) == SubSeq(s, 1, Len(s) - 1)

\* -------------------------------------------------------- filesystem paths
\* the segments of a path: the tokens between the separators
Segments(p) == SelectSeq(p, LAMBDA t : t # Sep)

is_absolute(p) == p # <<>> /\ p[1] = Sep

\* std::filesystem::path::operator/
PathJoin(p, q) ==
    IF is_absolute(q) THEN q
    ELSE IF p = <<>> \/ Last(p) = Sep THEN p \o q
    ELSE p \o <<Sep>> \o q

RECURSIVE NormalSegments(_, _)
NormalSegments(segs, acc) ==
    IF segs = <<>> THEN acc
    ELSE IF Head(segs) = "." THEN NormalSegments(Tail(segs), acc)
    ELSE IF Head(segs) = ".." THEN
        NormalSegments(Tail(segs), IF acc = <<>> THEN acc ELSE Front(acc))
    ELSE NormalSegments(Tail(segs), Append(acc, Head(segs)))

RECURSIVE FromSegments(_)
FromSegments(segs) ==
    IF segs = <<>> THEN <<>>
    ELSE <<Sep, Head(segs)>> \o FromSegments(Tail(segs))

\* the working directory of the process
CurrentPath == <<Sep, "cwd">>

\* the folder of the workspace (rootUri.fsPath())
RootFsPath == <<Sep, "ws">>

\* The error of std::filesystem::weakly_canonical: the status of a component
\* cannot be read when a directory on the way denies search permission.
CanonicalFails(p, fs) == \E i \in 1..Len(p) : p[i] \in fs

\* The value of std::filesystem::weakly_canonical when it succeeds: the
\* absolute path without "." and ".." components and doubled separators.
WeaklyCanonical(p) ==
    LET abs == IF is_absolute(p) THEN p ELSE PathJoin(CurrentPath, p)
    IN  IF Segments(abs) = <<>> THEN <<Sep>>
        ELSE FromSegments(NormalSegments(Segments(abs), <<>>))

\* ---------------------------------------------------------- the sourcemap
\* What a sourcemap can hold: the names of the children, and the script file
\* of a node, relative to the folder of the workspace.
ChildNames == {<<"A">>, <<"B">>}

ScriptFilePaths ==
    { <<"src", Sep, "a.luau">>,
      <<".", Sep, "src", Sep, "a.luau">> }

\* The root of a sourcemap: the DataModel of a place, which is no file, or
\* the root of a model, which can be a script.
Roots ==
    {[className |-> "DataModel", filePath |-> nullopt]}
    \cup [className : {"Folder"},
          filePath : {nullopt, Some(<<"src", Sep, "a.luau">>)}]

\* The shapes of the trees: shape[i] is the parent of node i, node 1 is the
\* root, and the children of a node are in the order of their numbers.
TreeShapes == { <<0>>, <<0, 1>>, <<0, 1, 1>>, <<0, 1, 2>> }

\* the directories whose search permission the model can take away
DeniableDirs == {"src"}

ChildrenOf(shape, i) ==
    SelectSeq([k \in 1..Len(shape) |-> k], LAMBDA j : shape[j] = i)

\* the SourceNode values json deserialises: no virtual path, no parent yet
NodesOf(shape, root, names, files) ==
    [ i \in 1..Len(shape) |->
        [ name        |-> IF i = 1 THEN <<"root">> ELSE names[i],
          className   |-> IF i = 1 THEN root.className ELSE "ModuleScript",
          filePath    |-> IF i = 1 THEN root.filePath ELSE files[i],
          children    |-> ChildrenOf(shape, i),
          parent      |-> 0,
          virtualPath |-> <<>>,
          plugin      |-> FALSE ] ]

WellFormed ==
    UNION { { [ok |-> TRUE, nodes |-> NodesOf(shape, root, names, files)] :
                root \in Roots,
                names \in [2..Len(shape) -> ChildNames],
                files \in [2..Len(shape) ->
                            {nullopt} \cup {Some(f) : f \in ScriptFilePaths}] } :
            shape \in TreeShapes }

\* a text json::parse or the conversion to SourceNode throws on
Malformed == [ok |-> FALSE, nodes |-> <<>>]

SourceMaps == WellFormed \cup {Malformed}

\* ------------------------------------------------------------ the indexes
getScriptFilePath(node) == node.filePath

\* SourceNode::mutateWithPluginInfo: marks the nodes of the tree
mutateWithPluginInfo(nodes) ==
    [ i \in DOMAIN nodes |-> [nodes[i] EXCEPT !.plugin = TRUE] ]

\* the key writePathsToMap files a script under (lines 446-452)
RealPathKey(realPath, fs) ==
    IF CanonicalFails(PathJoin(RootFsPath, realPath), fs)
    THEN realPath
    ELSE WeaklyCanonical(PathJoin(RootFsPath, realPath))

\* One call of writePathsToMap up to its loop over the children (lines
\* 443-453).  st holds the tree and the two indexes.
WriteNode(st, i, base, fs) ==
    LET node == st.tree.nodes[i]
        ptr == <<st.tree.gen, i>>
        realPath == getScriptFilePath(node)
    IN  [ tree |-> [st.tree EXCEPT !.nodes[i].virtualPath = base],
          v    |-> Put(st.v, base, ptr),
          r    |-> IF has_value(realPath)
                   THEN Put(st.r, RealPathKey(value(realPath), fs), ptr)
                   ELSE st.r ]

\* child->parent = node (line 457)
SetParent(st, child, i) ==
    [st EXCEPT !.tree.nodes[child].parent = i]

ChildBase(st, child, base) == base \o <<Sep>> \o st.tree.nodes[child].name

RECURSIVE writePathsToMap(_, _, _, _)
RECURSIVE WriteChildren(_, _, _, _, _)
writePathsToMap(st, i, base, fs) ==
    WriteChildren(WriteNode(st, i, base, fs), i, st.tree.nodes[i].children, base, fs)

WriteChildren(st, i, children, base, fs) ==
    IF children = <<>> THEN st
    ELSE LET child == Head(children)
             st1 == SetParent(st, child, i)
         IN  WriteChildren(writePathsToMap(st1, child, ChildBase(st1, child, base), fs),
                           i, Tail(children), base, fs)

RootBase(tree) ==
    IF tree.nodes[1].className = "DataModel" THEN <<"game">> ELSE <<"ProjectRoot">>

\* the tree updateSourceMap makes of a well-formed sourcemap (lines 469-483)
NewTree(d, gen, plugin) ==
    [ gen |-> gen,
      nodes |-> IF plugin /\ d.nodes[1].className = "DataModel"
                THEN mutateWithPluginInfo(d.nodes)
                ELSE d.nodes ]

\* a version of updateSourceMap that fills the indexes only while no tree
\* has been built, and only clears them afterwards
SourceMapUpdateOnce(old, d, gen, plugin, fs) ==
    LET cleared == [tree |-> old.tree, v |-> EmptyMap, r |-> EmptyMap]
    IN  IF ~d.ok \/ old.tree # NoTree THEN cleared
        ELSE LET tree == NewTree(d, gen, plugin)
             IN  writePathsToMap([cleared EXCEPT !.tree = tree], 1, RootBase(tree), fs)

\* a version of updateSourceMap without the two clear() calls
SourceMapUpdateWithoutClear(old, d, gen, plugin, fs) ==
    IF ~d.ok THEN old
    ELSE LET tree == NewTree(d, gen, plugin)
         IN  writePathsToMap([old EXCEPT !.tree = tree], 1, RootBase(tree), fs)

\* the state updateSourceMap leaves (lines 462-494); old is the tree and the
\* two indexes before the call
SourceMapUpdate(old, d, gen, plugin, fs) ==
    LET cleared == [tree |-> old.tree, v |-> EmptyMap, r |-> EmptyMap]
    IN  IF ~d.ok THEN cleared
        ELSE LET tree == NewTree(d, gen, plugin)
             IN  writePathsToMap([cleared EXCEPT !.tree = tree], 1, RootBase(tree), fs)

\* ------------------------------------------------------------ the lookups
\* the node a pointer refers to; only the nodes of the current tree are alive
Alive(ptr) ==
    /\ ptr[1] = rootSourceNode.gen
    /\ ptr[1] # 0
    /\ ptr[2] \in DOMAIN rootSourceNode.nodes

Deref(ptr) == rootSourceNode.nodes[ptr[2]]

\* the pointers to the nodes of the current tree
TreeNodes == { <<rootSourceNode.gen, i>> : i \in DOMAIN rootSourceNode.nodes }

isVirtualPath(name) ==
    /\ name # <<>>
    /\ name[1] \in {"game", "ProjectRoot"}
    /\ Len(name) > 1 => name[2] = Sep

getSourceNodeFromVirtualPath(name) ==
    IF name \notin DOMAIN virtualPathsToSourceNodes THEN nullopt
    ELSE Some(virtualPathsToSourceNodes[name])

\* the key getSourceNodeFromRealPath looks a name up under (lines 80-84)
LookupKey(name, fs) ==
    IF CanonicalFails(name, fs) THEN name ELSE WeaklyCanonical(name)

getSourceNodeFromRealPath(name) ==
    LET strName == LookupKey(name, denied)
    IN  IF strName \notin DOMAIN realPathsToSourceNodes THEN nullopt
        ELSE Some(realPathsToSourceNodes[strName])

getVirtualPathFromSourceNode(sourceNode) == Deref(sourceNode).virtualPath

getRealPathFromSourceNode(sourceNode) ==
    LET filePath == getScriptFilePath(Deref(sourceNode))
    IN  IF has_value(filePath) THEN Some(PathJoin(RootFsPath, value(filePath)))
        ELSE nullopt

resolveToVirtualPath(name) ==
    IF isVirtualPath(name) THEN Some(name)
    ELSE LET sourceNode == getSourceNodeFromRealPath(name)
         IN  IF ~has_value(sourceNode) THEN nullopt
             ELSE Some(getVirtualPathFromSourceNode(value(sourceNode)))

resolveToRealPath(name) ==
    IF isVirtualPath(name) THEN
        LET sourceNode == getSourceNodeFromVirtualPath(name)
        IN  IF has_value(sourceNode) THEN getRealPathFromSourceNode(value(sourceNode))
            ELSE nullopt
    ELSE Some(name)

\* ------------------------------------------------- more filesystem paths
\* the place of the dot that starts the extension of a file name, or 0
DotPlaces(tok) == { i \in 2..Len(tok) : SubSeq(tok, i, i) = "." }

ExtensionStart(tok) ==
    IF tok \in {".", ".."} \/ DotPlaces(tok) = {} THEN 0
    ELSE CHOOSE i \in DotPlaces(tok) : \A j \in DotPlaces(tok) : j <= i

\* std::filesystem::path::replace_extension
replace_extension(p, ext) ==
    IF p = <<>> \/ Last(p) = Sep THEN Append(p, ext)
    ELSE LET tok == Last(p)
             dot == ExtensionStart(tok)
             stem == IF dot = 0 THEN tok ELSE SubSeq(tok, 1, dot - 1)
         IN  Append(Front(p), stem \o ext)

\* std::filesystem::path::parent_path
RECURSIVE parent_path(_)
parent_path(p) ==
    IF p = <<>> THEN <<>>
    ELSE IF p = <<Sep>> THEN p
    ELSE IF Last(p) = Sep THEN Front(p)
    ELSE IF Len(p) = 1 THEN <<>>
    ELSE IF Len(p) = 2 THEN <<Sep>>
    ELSE SubSeq(p, 1, Len(p) - 2)

\* std::filesystem::exists and is_directory, on the files and directories
\* of the disk
exists(p, files) == WeaklyCanonical(p) \in files.regular \cup files.directories

is_directory(p, files, fs) ==
    ~CanonicalFails(p, fs) /\ WeaklyCanonical(p) \in files.directories

\* the home directory of the user
HomePath == <<Sep, "home">>

\* resolvePath: a leading "~" stands for the home directory
resolvePath(p) ==
    IF p # <<>> /\ p[1] = "~" THEN HomePath \o Tail(p) ELSE p

\* Uri::file(path), printed, parsed again, fsPath(): the letter of a drive
\* comes out in lower case
DriveLetters == [x \in {"C:"} |-> "c:"]

ThroughUri(p) ==
    IF p # <<>> /\ p[1] \in DOMAIN DriveLetters
    THEN <<DriveLetters[p[1]]>> \o Tail(p)
    ELSE p

\* -------------------------------------------------- resolving a reference
ModuleInfo(name, optional) == [name |-> name, optional |-> optional]

Returned(result) == [outcome |-> "returned", result |-> result]

\* the call does not return: the process faults
Faulted == [outcome |-> "fault", result |-> nullopt]

Game == <<"game">>

\* the context with game/Players/LocalPlayer items pointing to the correct
\* place wherever they stand at the start of the path
mapContextByPrefix(context) ==
    LET local == <<"game", Sep, "Players", Sep, "LocalPlayer", Sep>>
        rest == SubSeq(context, 8, Len(context))
    IN  IF startsWith(context, local \o <<"PlayerScripts">>)
        THEN <<"game", Sep, "StarterPlayer", Sep, "StarterPlayerScripts">> \o rest
        ELSE IF startsWith(context, local \o <<"PlayerGui">>)
        THEN <<"game", Sep, "StarterGui">> \o rest
        ELSE IF startsWith(context, local \o <<"StarterGear">>)
        THEN <<"game", Sep, "StarterPack">> \o rest
        ELSE context

\* Modify the context so that game/Players/LocalPlayer items point to the
\* correct place
mapContext(context) ==
    IF context = <<"game", Sep, "Players", Sep, "LocalPlayer", Sep, "PlayerScripts">>
    THEN <<"game", Sep, "StarterPlayer", Sep, "StarterPlayerScripts">>
    ELSE IF context = <<"game", Sep, "Players", Sep, "LocalPlayer", Sep, "PlayerGui">>
    THEN <<"game", Sep, "StarterGui">>
    ELSE IF context = <<"game", Sep, "Players", Sep, "LocalPlayer", Sep, "StarterGear">>
    THEN <<"game", Sep, "StarterPack">>
    ELSE context

\* the places of the separators of a path
SepPlaces(path) == { i \in 1..Len(path) : path[i] = Sep }

\* getParentPath: the path one level up, nothing when there is no level up
getParentPath(path) ==
    IF SepPlaces(path) = {} THEN nullopt
    ELSE LET slash == CHOOSE i \in SepPlaces(path) : \A j \in SepPlaces(path) : j <= i
         IN  Some(SubSeq(path, 1, slash - 1))

\* getAncestorPath: the path cut after the nearest segment above the last
\* one that is ancestorName
getAncestorPath(path, ancestorName) ==
    LET parentPath == getParentPath(path)
        n == Len(ancestorName)
        places == IF has_value(parentPath) /\ n > 0
                  THEN { i \in 1..(Len(value(parentPath)) - n + 1) :
                            /\ SubSeq(value(parentPath), i, i + n - 1) = ancestorName
                            /\ i = 1 \/ value(parentPath)[i - 1] = Sep
                            /\ i + n - 1 = Len(value(parentPath))
                               \/ value(parentPath)[i + n] = Sep }
                  ELSE {}
    IN  IF places = {} THEN nullopt
        ELSE Some(SubSeq(value(parentPath), 1,
                         (CHOOSE i \in places : \A j \in places : j <= i) + n - 1))

\* Returns the base path to use in a string require.
getRequireBasePath(fileModuleName) ==
    IF ~client.present THEN RootFsPath
    ELSE IF client.mode = "RelativeToWorkspaceRoot" THEN RootFsPath
    ELSE IF client.mode = "RelativeToFile" THEN
        IF has_value(fileModuleName) THEN
            LET filePath == resolveToRealPath(value(fileModuleName))
            IN  IF has_value(filePath) THEN parent_path(value(filePath)) ELSE RootFsPath
        ELSE RootFsPath
    ELSE RootFsPath

\* the path resolveDirectoryAlias makes of one alias that matches
AliasedPath(path, alias, str, includeExtension) ==
    LET remainder == substr(str, Len(alias))
        filePath == resolvePath(IF remainder = <<>> THEN path ELSE PathJoin(path, remainder))
    IN  IF includeExtension /\ ExtensionStart(IF filePath = <<>> THEN "" ELSE Last(filePath)) = 0
        THEN IF exists(replace_extension(filePath, ".luau"), disk)
             THEN replace_extension(filePath, ".luau")
             ELSE replace_extension(filePath, ".lua")
        ELSE filePath

\* Resolve the string using a directory alias if present.  order is the
\* order in which the unordered_map hands out its entries.
RECURSIVE resolveDirectoryAlias(_, _, _, _)
resolveDirectoryAlias(directoryAliases, order, str, includeExtension) ==
    IF order = <<>> THEN nullopt
    ELSE IF startsWith(str, Head(order))
    THEN Some(AliasedPath(directoryAliases[Head(order)], Head(order), str, includeExtension))
    ELSE resolveDirectoryAlias(directoryAliases, Tail(order), str, includeExtension)

\* the path a string require names before "init.luau" and the file endings
\* are added (lines 263-283)
RequiredFilePath(context, requiredString, order) ==
    LET basePath == getRequireBasePath(IF has_value(context)
                                       THEN Some(value(context).name) ELSE nullopt)
        aliasedPath == resolveDirectoryAlias(client.directoryAliases, order,
                                             requiredString, FALSE)
    IN  IF ~client.present THEN PathJoin(basePath, requiredString)
        ELSE IF requiredString \in DOMAIN client.fileAliases
        THEN resolvePath(client.fileAliases[requiredString])
        ELSE IF has_value(aliasedPath) THEN value(aliasedPath)
        ELSE PathJoin(basePath, requiredString)

\* the module a path names: "init.luau" in a directory, the file ending
\* .luau, or .lua when there is no such file (lines 285-302)
WithFileEnding(filePath0) ==
    LET filePath1 == IF is_directory(filePath0, disk, denied)
                     THEN PathJoin(filePath0, <<"init.luau">>) ELSE filePath0
        luau == replace_extension(filePath1, ".luau")
        lua == replace_extension(luau, ".lua")
    IN  IF CanonicalFails(luau, denied) \/ ~exists(luau, disk)
        THEN ThroughUri(IF CanonicalFails(lua, denied) THEN <<>> ELSE WeaklyCanonical(lua))
        ELSE ThroughUri(luau)

\* func == "GetService" && context->name == "game" (line 346)
IsServiceLookupAnywhere(func, contextName) == func = "GetService"

IsServiceLookup(func, contextName) == func = "GetService" /\ contextName = Game

\* func == "WaitForChild" || (func == "FindFirstChild" && call->args.size == 1)
\* (line 350)
IsChildLookupRecursive(func, size) == func \in {"WaitForChild", "FindFirstChild"}

IsChildLookup(func, size) ==
    func = "WaitForChild" \/ (func = "FindFirstChild" /\ size = 1)

\* resolveModule(context, node), with the order the directory aliases are
\* gone through in: the outcomes the call can have
resolveModule(context, node, order) ==
    IF node.kind = "ConstantString" THEN
        {Returned(Some(ModuleInfo(
            WithFileEnding(RequiredFilePath(context, node.value, order)), FALSE)))}
    ELSE IF node.kind = "Global" THEN
        IF node.name = "game" THEN {Returned(Some(ModuleInfo(Game, FALSE)))}
        ELSE IF node.name = "script" THEN
            IF ~has_value(context)
            \* context->name through a null pointer
            THEN {Faulted, Returned(nullopt)}
            ELSE LET virtualPath == resolveToVirtualPath(value(context).name)
                 IN  IF has_value(virtualPath)
                     THEN {Returned(Some(ModuleInfo(value(virtualPath), FALSE)))}
                     ELSE {Returned(nullopt)}
        ELSE {Returned(nullopt)}
    ELSE IF node.kind = "IndexName" THEN
        IF has_value(context) THEN
            LET parentPath == getParentPath(value(context).name)
            IN  IF node.index = <<"Parent">> /\ has_value(parentPath)
                THEN {Returned(Some(ModuleInfo(value(parentPath), value(context).optional)))}
                ELSE {Returned(Some(ModuleInfo(
                        mapContext(value(context).name) \o <<Sep>> \o node.index,
                        value(context).optional)))}
        ELSE {Returned(nullopt)}
    ELSE IF node.kind = "IndexExpr" THEN
        IF node.index.kind = "ConstantString" /\ has_value(context)
        THEN {Returned(Some(ModuleInfo(
                mapContext(value(context).name) \o <<Sep>> \o node.index.value,
                value(context).optional)))}
        ELSE {Returned(nullopt)}
    ELSE IF node.kind = "Call" /\ node.self /\ Len(node.args) >= 1 /\ has_value(context) THEN
        IF node.args[1].kind = "ConstantString" THEN
            LET index == node.args[1].value
                func == node.func
            IN  IF IsServiceLookup(func, value(context).name)
                THEN {Returned(Some(ModuleInfo(<<"game", Sep>> \o index, FALSE)))}
                ELSE IF IsChildLookup(func, Len(node.args))
                THEN {Returned(Some(ModuleInfo(
                        mapContext(value(context).name) \o <<Sep>> \o index,
                        value(context).optional)))}
                ELSE IF func = "FindFirstAncestor" THEN
                    LET ancestorName == getAncestorPath(value(context).name, index)
                    IN  IF has_value(ancestorName)
                        THEN {Returned(Some(ModuleInfo(value(ancestorName),
                                                       value(context).optional)))}
                        ELSE {Returned(nullopt)}
                ELSE {Returned(nullopt)}
        ELSE {Returned(nullopt)}
    ELSE {Returned(nullopt)}

\* ---------------------------------------------------------------- actions
NoClient == [present |-> FALSE]

NoCall == [op |-> "none"]

\* a disk: the regular files with what they hold, the directories, and
\* whether names differing in case are one file (Windows, macOS)
OnDisk(contents, directories) ==
    [regular |-> DOMAIN contents, directories |-> directories, contents |-> contents,
     caseInsensitive |-> FALSE]

EmptyDisk == OnDisk(EmptyMap, {})

Idle == pc = "idle"

\* the call before this one was an updateSourceMap of the same text
SameAsLast(d) == last.op = "updateSourceMap" /\ last.sourceMapContents = d

\* updateSourceMap(sourceMapContents), the whole call
updateSourceMap(d) ==
    /\ Idle
    /\ d.ok => allocated < MaxTrees
    /\ LET old == [tree |-> rootSourceNode, v |-> virtualPathsToSourceNodes,
                   r |-> realPathsToSourceNodes]
           st == SourceMapUpdate(old, d, allocated + 1, pluginInfo, denied)
       IN  /\ rootSourceNode' = st.tree
           /\ virtualPathsToSourceNodes' = st.v
           /\ realPathsToSourceNodes' = st.r
    /\ allocated' = IF d.ok THEN allocated + 1 ELSE allocated
    /\ last' = [op |-> "updateSourceMap", sourceMapContents |-> d,
                repeated |-> SameAsLast(d)]
    /\ UNCHANGED <<pluginInfo, denied, pc, pending, client, disk>>
    /\ UNCHANGED fileVars

Init ==
    /\ rootSourceNode = NoTree
    /\ virtualPathsToSourceNodes = EmptyMap
    /\ realPathsToSourceNodes = EmptyMap
    /\ pluginInfo \in BOOLEAN
    /\ denied \in SUBSET DeniableDirs
    /\ allocated = 0
    /\ pc = "idle"
    /\ pending = <<>>
    /\ client = NoClient
    /\ disk = EmptyDisk
    /\ last = NoCall
    /\ configCache = EmptyMap
    /\ configErrors = <<>>
    /\ published = EmptyMap
    /\ managedFiles = EmptyMap

Rebuild == \E d \in WellFormed : updateSourceMap(d)

RebuildMalformed == updateSourceMap(Malformed)

Next == Rebuild \/ RebuildMalformed

Spec == Init /\ [][Next]_vars

\* ------------------------------------------- updateSourceMap step by step
\* The same call as a sequence of steps, one per statement that changes what
\* a lookup can see; no lock keeps a lookup from running between two steps.

\* realPathsToSourceNodes.clear() (line 464)
ClearRealPaths(d) ==
    /\ Idle
    /\ d.ok => allocated < MaxTrees
    /\ realPathsToSourceNodes' = EmptyMap
    /\ pc' = "clearVirtual"
    /\ last' = [op |-> "updateSourceMap", sourceMapContents |-> d,
                repeated |-> SameAsLast(d)]
    /\ UNCHANGED <<rootSourceNode, virtualPathsToSourceNodes, pluginInfo, denied,
                   allocated, pending, client, disk>>
    /\ UNCHANGED fileVars

\* virtualPathsToSourceNodes.clear() (line 465)
ClearVirtualPaths ==
    /\ pc = "clearVirtual"
    /\ virtualPathsToSourceNodes' = EmptyMap
    /\ pc' = "parse"
    /\ UNCHANGED <<rootSourceNode, realPathsToSourceNodes, pluginInfo, denied,
                   allocated, pending, client, disk, last>>
    /\ UNCHANGED fileVars

\* json::parse and the conversion throw (lines 469-470, 489-493)
ParseThrows ==
    /\ pc = "parse"
    /\ ~last.sourceMapContents.ok
    /\ pc' = "idle"
    /\ UNCHANGED <<rootSourceNode, virtualPathsToSourceNodes, realPathsToSourceNodes,
                   pluginInfo, denied, allocated, pending, client, disk, last>>
    /\ UNCHANGED fileVars

\* the new tree replaces the old one (lines 469-486)
AssignRoot ==
    /\ pc = "parse"
    /\ last.sourceMapContents.ok
    /\ LET tree == NewTree(last.sourceMapContents, allocated + 1, pluginInfo)
       IN  /\ rootSourceNode' = tree
           /\ pending' = << <<1, RootBase(tree), 0>> >>
    /\ allocated' = allocated + 1
    /\ pc' = "write"
    /\ UNCHANGED <<virtualPathsToSourceNodes, realPathsToSourceNodes, pluginInfo,
                   denied, client, disk, last>>
    /\ UNCHANGED fileVars

\* one call of writePathsToMap (lines 443-459); its calls for the children
\* run next, in order, before the calls still pending
WritePathsStep ==
    /\ pc = "write"
    /\ pending # <<>>
    /\ LET i == Head(pending)[1]
           base == Head(pending)[2]
           parent == Head(pending)[3]
           st0 == [tree |-> rootSourceNode, v |-> virtualPathsToSourceNodes,
                   r |-> realPathsToSourceNodes]
           st1 == IF parent = 0 THEN st0 ELSE SetParent(st0, i, parent)
           st == WriteNode(st1, i, base, denied)
           children == st.tree.nodes[i].children
           calls == [k \in 1..Len(children) |->
                        <<children[k], ChildBase(st, children[k], base), i>>]
           rest == calls \o Tail(pending)
       IN  /\ rootSourceNode' = st.tree
           /\ virtualPathsToSourceNodes' = st.v
           /\ realPathsToSourceNodes' = st.r
           /\ pending' = rest
           /\ pc' = IF rest = <<>> THEN "idle" ELSE "write"
    /\ UNCHANGED <<pluginInfo, denied, allocated, client, disk, last>>
    /\ UNCHANGED fileVars

BeginRebuild == \E d \in SourceMaps : ClearRealPaths(d)

NextSteps ==
    \/ BeginRebuild
    \/ ClearVirtualPaths
    \/ ParseThrows
    \/ AssignRoot
    \/ WritePathsStep

SpecSteps == Init /\ [][NextSteps]_vars

\* The tree and the two indexes are one generation: nothing built yet, or
\* the indexes are what writePathsToMap makes of the whole tree.
CompleteGeneration(tree, v, r) ==
    IF tree = NoTree THEN v = EmptyMap /\ r = EmptyMap
    ELSE LET built == writePathsToMap([tree |-> tree, v |-> EmptyMap, r |-> EmptyMap],
                                      1, RootBase(tree), denied)
         IN  built.tree = tree /\ built.v = v /\ built.r = r

\* ------------------------------------------------ resolveModule as a call
\* the most arguments a call expression of the model has
MaxArgs == 2

ConstantString(str) == [kind |-> "ConstantString", value |-> str]

\* an expression of a shape resolveModule does not handle
OtherExpr == [kind |-> "ConstantNumber"]

RequiredStrings ==
    { <<"m">>,
      <<"@a", Sep, "m">>,
      <<"@a", Sep, "b", Sep, "m">>,
      <<"@a", Sep>> }

IndexNames == { <<"Parent">>, <<"Frame">> }

ArgExprs == { ConstantString(<<"Frame">>), OtherExpr }

ArgLists == UNION { [1..n -> ArgExprs] : n \in 0..MaxArgs }

FuncNames == {"GetService", "WaitForChild", "FindFirstChild", "FindFirstAncestor", "Clone"}

Exprs ==
    { ConstantString(str) : str \in RequiredStrings }
    \cup [kind : {"Global"}, name : {"game", "script", "workspace"}]
    \cup [kind : {"IndexName"}, index : IndexNames]
    \cup [kind : {"IndexExpr"},
          index : {ConstantString(str) : str \in IndexNames} \cup {OtherExpr}]
    \cup [kind : {"Call"}, self : BOOLEAN, func : FuncNames, args : ArgLists]
    \cup {OtherExpr}

LocalPlayer == <<"game", Sep, "Players", Sep, "LocalPlayer">>

ContextNames ==
    { Game,
      <<"ProjectRoot">>,
      <<"game", Sep, "ReplicatedStorage", Sep, "Utils">>,
      <<"game", Sep, "Frame", Sep, "A">>,
      LocalPlayer \o <<Sep, "PlayerScripts">>,
      LocalPlayer \o <<Sep, "PlayerGui">>,
      LocalPlayer \o <<Sep, "StarterGear">>,
      LocalPlayer \o <<Sep, "PlayerGui", Sep, "Frame">>,
      <<Sep, "ws", Sep, "src", Sep, "a.luau">>,
      <<Sep, "ws", Sep, ".", Sep, "src", Sep, "a.luau">>,
      <<Sep, "ws", Sep, "lib", Sep, "b.luau">> }

\* a null context, or a ModuleInfo
Contexts ==
    {nullopt} \cup { Some(ModuleInfo(name, optional)) :
                        name \in ContextNames, optional \in BOOLEAN }

Modes == {"RelativeToWorkspaceRoot", "RelativeToFile"}

FileAliasMaps ==
    { EmptyMap,
      [str \in { <<"@a", Sep, "b", Sep, "m">> } |-> <<Sep, "z", Sep, "f">>] }

DirectoryAliasMaps ==
    { EmptyMap,
      [str \in { <<"@a", Sep>> } |-> <<Sep, "x">>],
      [str \in { <<"@a", Sep>>, <<"@a", Sep, "b", Sep>> } |->
          IF str = <<"@a", Sep>> THEN <<Sep, "x">> ELSE <<Sep, "y">>] }

Clients ==
    {NoClient}
    \cup [present : {TRUE}, mode : Modes, fileAliases : FileAliasMaps,
          directoryAliases : DirectoryAliasMaps]

DiskLayouts ==
    { EmptyDisk,
      OnDisk([f \in { <<Sep, "y", Sep, "m.luau">>,
                      <<Sep, "x", Sep, "m">>,
                      <<Sep, "x", Sep, "b", Sep, "m", Sep, "init.luau">>,
                      <<Sep, "ws", Sep, "src", Sep, "a.luau">>,
                      <<Sep, "ws", Sep, "src", Sep, "m.lua">> } |-> "return 1"],
             { <<Sep, "x">>, <<Sep, "y">>, <<Sep, "ws">>,
               <<Sep, "ws", Sep, "src">>,
               <<Sep, "x", Sep, "b">>,
               <<Sep, "x", Sep, "b", Sep, "m">> }) }

\* the sequences that hold every element of S once
Orders(S) ==
    { o \in [1..Cardinality(S) -> S] : \A i, j \in 1..Cardinality(S) : o[i] = o[j] => i = j }

\* the orders an unordered_map can hand the directory aliases out in
AliasOrders ==
    IF client.present THEN Orders(DOMAIN client.directoryAliases) ELSE {<<>>}

\* the sourcemaps the resolver has loaded when references are resolved
TwoScripts ==
    [ok |-> TRUE,
     nodes |-> NodesOf(<<0, 1, 1>>, [className |-> "DataModel", filePath |-> nullopt],
                       [i \in 2..3 |-> IF i = 2 THEN <<"A">> ELSE <<"B">>],
                       [i \in 2..3 |-> IF i = 2 THEN Some(<<"src", Sep, "a.luau">>)
                                       ELSE nullopt])]

OneFile ==
    [ok |-> TRUE,
     nodes |-> NodesOf(<<0, 1>>,
                       [className |-> "Folder", filePath |-> Some(<<"src", Sep, "a.luau">>)],
                       [i \in 2..2 |-> <<"A">>],
                       [i \in 2..2 |-> Some(<<".", Sep, "src", Sep, "a.luau">>)])]

LoadedSourceMaps == {TwoScripts, OneFile}

\* resolveModule(context, node)
ResolveModule(context, node) ==
    /\ \E order \in AliasOrders :
         \E out \in resolveModule(context, node, order) :
            last' = [op |-> "resolveModule", context |-> context, node |-> node,
                     order |-> order, outcome |-> out.outcome, result |-> out.result]
    /\ UNCHANGED <<rootSourceNode, virtualPathsToSourceNodes, realPathsToSourceNodes,
                   pluginInfo, denied, allocated, pc, pending, client, disk>>
    /\ UNCHANGED fileVars

\* a resolver with or without a sourcemap loaded, of a client or of none
InitResolve ==
    /\ pluginInfo = FALSE
    /\ denied \in SUBSET DeniableDirs
    /\ \/ /\ rootSourceNode = NoTree
          /\ virtualPathsToSourceNodes = EmptyMap
          /\ realPathsToSourceNodes = EmptyMap
          /\ allocated = 0
       \/ \E d \in LoadedSourceMaps :
            LET st == SourceMapUpdate([tree |-> NoTree, v |-> EmptyMap, r |-> EmptyMap],
                                      d, 1, pluginInfo, denied)
            IN  /\ rootSourceNode = st.tree
                /\ virtualPathsToSourceNodes = st.v
                /\ realPathsToSourceNodes = st.r
                /\ allocated = 1
    /\ pc = "idle"
    /\ pending = <<>>
    /\ client \in Clients
    /\ disk \in DiskLayouts
    /\ last = NoCall
    /\ configCache = EmptyMap
    /\ configErrors = <<>>
    /\ published = EmptyMap
    /\ managedFiles = EmptyMap

\* one reference is resolved in a behaviour
NextResolve ==
    /\ last = NoCall
    /\ \E context \in Contexts, node \in Exprs : ResolveModule(context, node)

SpecResolve == InitResolve /\ [][NextResolve]_vars

\* ------------------------------------------------- the config cascade
\* Luau::kConfigName
kConfigName == ".luaurc"

\* A Luau::Config is the value of each of its options.
OptionNames == {"X", "Y"}

defaultConfig == [o \in OptionNames |-> 0]

\* The text of a config file is the settings Luau::parseConfig takes from
\* it and the error it stops with, if it stops with one.
ConfigText(settings, error) == [settings |-> settings, error |-> error]

\* toLower, for the names of the model that have capitals
LowerCase == [x \in {"A.luau"} |-> "a.luau"]

toLower(str) ==
    [i \in DOMAIN str |-> IF str[i] \in DOMAIN LowerCase THEN LowerCase[str[i]] ELSE str[i]]

\* the file of the disk a path leads to; the files of a disk that takes
\* names differing in case for one are named in lower case in the model
FileAt(filePath) ==
    IF disk.caseInsensitive THEN toLower(WeaklyCanonical(filePath))
    ELSE WeaklyCanonical(filePath)

\* readFile: the text of the file the path leads to, if there is one
readFile(filePath) ==
    IF ~CanonicalFails(filePath, denied) /\ FileAt(filePath) \in DOMAIN disk.contents
    THEN Some(disk.contents[FileAt(filePath)])
    ELSE nullopt

\* Luau::parseConfig(contents, result): the settings overlaid on result, and
\* the error
parseConfig(contents, result) ==
    [ result |-> [o \in DOMAIN result |->
                    IF o \in DOMAIN contents.settings THEN contents.settings[o]
                    ELSE result[o]],
      error  |-> contents.error ]

has_relative_path(p) == p # <<>> /\ p # <<Sep>>

has_parent_path(p) == parent_path(p) # <<>>

\* Uri::file(path)
UriFile(path) == <<"file://">> \o path

\* client->publishDiagnostics: the client keeps the diagnostics of the file
\* in place of the ones it held (previous)
Publish(cs, uri, diagnostics) ==
    [cs EXCEPT
        !.published = Put(@, uri,
            [latest   |-> diagnostics,
             previous |-> IF uri \in DOMAIN cs.published
                          THEN Some(cs.published[uri].latest) ELSE nullopt]),
        !.publishes = Append(@, [uri |-> uri, diagnostics |-> diagnostics])]

\* a version that reports the error to the client and keeps it as well
ReportErrorEverywhere(cs, configPath, error, hasClient) ==
    LET kept == [cs EXCEPT !.errors = Append(@, <<configPath, error>>)]
    IN  IF hasClient THEN Publish(kept, UriFile(configPath), <<error>>) ELSE kept

\* the config file does not parse (lines 411-423)
ReportError(cs, configPath, error, hasClient) ==
    IF hasClient THEN Publish(cs, UriFile(configPath), <<error>>)
    ELSE [cs EXCEPT !.errors = Append(@, <<configPath, error>>)]

\* a version that publishes nothing for a file that parses
ReportNothing(cs, configPath, hasClient) == cs

\* the config file parses (lines 424-429)
ReportSuccess(cs, configPath, hasClient) ==
    IF hasClient THEN Publish(cs, UriFile(configPath), <<>>) ELSE cs

\* readConfigRec without the lookup in the cache of lines 400-402
RECURSIVE readConfigRecUncached(_, _)
readConfigRecUncached(cs, path) ==
    LET up == IF has_relative_path(path) /\ has_parent_path(path)
              THEN readConfigRecUncached(cs, parent_path(path))
              ELSE [cs |-> cs, result |-> defaultConfig]
        configPath == PathJoin(path, <<kConfigName>>)
        contents == readFile(configPath)
        cs1 == [up.cs EXCEPT !.reads = Append(@, configPath)]
        parsed == parseConfig(value(contents), up.result)
        cs2 == IF ~has_value(contents) THEN cs1
               ELSE IF has_value(parsed.error)
               THEN ReportError(cs1, configPath, value(parsed.error), client.present)
               ELSE ReportSuccess(cs1, configPath, client.present)
        result == IF has_value(contents) THEN parsed.result ELSE up.result
    IN  [cs |-> [cs2 EXCEPT !.cache = Put(@, path, result)], result |-> result]

\* readConfigRec(path) (lines 398-433).  cs holds configCache, configErrors
\* and what the client holds, and the files read (reads) and the
\* diagnostics published (publishes) since the call began.
RECURSIVE readConfigRec(_, _)
readConfigRec(cs, path) ==
    IF path \in DOMAIN cs.cache THEN [cs |-> cs, result |-> cs.cache[path]]
    ELSE
    LET up == IF has_relative_path(path) /\ has_parent_path(path)
              THEN readConfigRec(cs, parent_path(path))
              ELSE [cs |-> cs, result |-> defaultConfig]
        configPath == PathJoin(path, <<kConfigName>>)
        contents == readFile(configPath)
        cs1 == [up.cs EXCEPT !.reads = Append(@, configPath)]
        parsed == parseConfig(value(contents), up.result)
        cs2 == IF ~has_value(contents) THEN cs1
               ELSE IF has_value(parsed.error)
               THEN ReportError(cs1, configPath, value(parsed.error), client.present)
               ELSE ReportSuccess(cs1, configPath, client.present)
        result == IF has_value(contents) THEN parsed.result ELSE up.result
    IN  [cs |-> [cs2 EXCEPT !.cache = Put(@, path, result)], result |-> result]

\* getConfig(name) (lines 389-396)
getConfig(cs, name) ==
    LET realPath == resolveToRealPath(name)
    IN  IF ~has_value(realPath)
           \/ ~has_relative_path(value(realPath))
           \/ ~has_parent_path(value(realPath))
        THEN [cs |-> cs, result |-> defaultConfig]
        ELSE readConfigRec(cs, parent_path(value(realPath)))

\* a version of clearConfigCache that clears the cache alone
ClearedCacheOnly(cs) == [cs EXCEPT !.cache = EmptyMap]

\* a version of clearConfigCache that clears the error list alone
ClearedErrorsOnly(cs) == [cs EXCEPT !.errors = <<>>]

\* what clearConfigCache leaves (lines 435-439)
ClearedConfig(cs) == [cs EXCEPT !.cache = EmptyMap, !.errors = <<>>]

\* the cache, the error list and the client as a call finds them
ConfigState ==
    [cache |-> configCache, errors |-> configErrors, published |-> published,
     reads |-> <<>>, publishes |-> <<>>]

\* no getConfig has been made since the last clearConfigCache
Invalidated ==
    \/ last.op = "clearConfigCache"
    \/ last.op = "writeFile" /\ last.invalidated

\* getConfig(name), the whole call
GetConfig(name) ==
    /\ LET out == getConfig(ConfigState, name)
       IN  /\ configCache' = out.cs.cache
           /\ configErrors' = out.cs.errors
           /\ published' = out.cs.published
           /\ last' = [op |-> "getConfig", name |-> name, result |-> out.result,
                       reads |-> out.cs.reads, publishes |-> out.cs.publishes,
                       kept |-> SubSeq(out.cs.errors, Len(configErrors) + 1,
                                       Len(out.cs.errors)),
                       invalidated |-> Invalidated]
    /\ UNCHANGED <<rootSourceNode, virtualPathsToSourceNodes, realPathsToSourceNodes,
                   pluginInfo, denied, allocated, pc, pending, client, disk,
                   managedFiles>>

\* clearConfigCache()
clearConfigCache ==
    /\ LET cs == ClearedConfig(ConfigState)
       IN  /\ configCache' = cs.cache
           /\ configErrors' = cs.errors
    /\ last' = [op |-> "clearConfigCache",
                hadCache |-> configCache # EmptyMap,
                hadErrors |-> configErrors # <<>>]
    /\ UNCHANGED <<rootSourceNode, virtualPathsToSourceNodes, realPathsToSourceNodes,
                   pluginInfo, denied, allocated, pc, pending, client, disk,
                   published, managedFiles>>

\* the names getConfig is asked for
A_File == <<"sub", Sep, "deep", Sep, "file.luau">>

B_File == <<"..", Sep, "lib", Sep, "b.luau">>

ConfigNames ==
    { <<"game", Sep, "A">>, <<"game", Sep, "B">>, <<"game", Sep, "C">>,
      <<Sep, "ws", Sep, "sub", Sep, "main.luau">> }

\* the sourcemap loaded when the configs are asked for: A is a script under
\* the workspace folder, B a script of a folder beside it, C is no file
ConfigSourceMap ==
    [ok |-> TRUE,
     nodes |-> NodesOf(<<0, 1, 1, 1>>, [className |-> "DataModel", filePath |-> nullopt],
                       [i \in 2..4 |-> <<(<<"A", "B", "C">>)[i - 1]>>],
                       [i \in 2..4 |-> (<<Some(A_File), Some(B_File), nullopt>>)[i - 1]])]

\* the config files the editor of the user writes, and what they can hold
ConfigFiles ==
    { <<Sep, "ws", Sep, kConfigName>>, <<Sep, "ws", Sep, "sub", Sep, kConfigName>> }

\* a text that parses, and one parseConfig stops in with an error after it
\* has taken a setting
ConfigTexts(filePath) ==
    IF filePath = <<Sep, "ws", Sep, kConfigName>>
    THEN { ConfigText([o \in {"X"} |-> 1], nullopt),
           ConfigText([o \in {"Y"} |-> 1], Some("unknown key")) }
    ELSE { ConfigText([o \in {"X"} |-> 2], nullopt),
           ConfigText(EmptyMap, Some("syntax error")) }

ConfigDirectories ==
    { <<Sep>>, <<Sep, "ws">>, <<Sep, "lib">>, <<Sep, "ws", Sep, "sub">>,
      <<Sep, "ws", Sep, "sub", Sep, "deep">> }

\* a file is written, or removed, behind the back of the resolver
WriteFile(filePath, text) ==
    /\ readFile(filePath) # text
    /\ LET contents ==
               IF has_value(text) THEN Put(disk.contents, FileAt(filePath), value(text))
               ELSE [f \in DOMAIN disk.contents \ {FileAt(filePath)} |-> disk.contents[f]]
       IN  disk' = [disk EXCEPT !.contents = contents, !.regular = DOMAIN contents]
    /\ last' = [op |-> "writeFile", invalidated |-> Invalidated]
    /\ UNCHANGED <<rootSourceNode, virtualPathsToSourceNodes, realPathsToSourceNodes,
                   pluginInfo, denied, allocated, pc, pending, client,
                   configCache, configErrors, published, managedFiles>>

\* a client that takes diagnostics
DiagnosticsClient ==
    [present |-> TRUE, mode |-> "RelativeToWorkspaceRoot", fileAliases |-> EmptyMap,
     directoryAliases |-> EmptyMap]

InitConfig ==
    /\ pluginInfo = FALSE
    /\ denied = {}
    /\ LET st == SourceMapUpdate([tree |-> NoTree, v |-> EmptyMap, r |-> EmptyMap],
                                 ConfigSourceMap, 1, pluginInfo, denied)
       IN  /\ rootSourceNode = st.tree
           /\ virtualPathsToSourceNodes = st.v
           /\ realPathsToSourceNodes = st.r
    /\ allocated = 1
    /\ pc = "idle"
    /\ pending = <<>>
    /\ client \in {NoClient, DiagnosticsClient}
    /\ disk = OnDisk(EmptyMap, ConfigDirectories)
    /\ last = NoCall
    /\ configCache = EmptyMap
    /\ configErrors = <<>>
    /\ published = EmptyMap
    /\ managedFiles = EmptyMap

QueryConfig == \E name \in ConfigNames : GetConfig(name)

EditConfigFile ==
    \E filePath \in ConfigFiles :
        \E text \in {nullopt} \cup {Some(t) : t \in ConfigTexts(filePath)} :
            WriteFile(filePath, text)

NextConfig ==
    \/ QueryConfig
    \/ clearConfigCache
    \/ EditConfigFile

SpecConfig == InitConfig /\ [][NextConfig]_vars

\* ------------------------------------------------------ loading a source
\* Uri::parse(name) and Uri::toString, for the names of untitled documents
UriParse(name) == name

\* normalisedUriString(uri) (lines 24-35): in lower case where the build is
\* for Windows or macOS
normalisedUriString(uri) ==
    IF disk.caseInsensitive THEN toLower(uri) ELSE uri

\* getTextDocument(uri) (lines 37-44): the open document, or a null pointer
getTextDocument(uri) ==
    IF normalisedUriString(uri) \in DOMAIN managedFiles
    THEN Some(managedFiles[normalisedUriString(uri)])
    ELSE nullopt

\* getTextDocumentFromModuleName(name) (lines 46-56)
getTextDocumentFromModuleName(name) ==
    IF startsWith(name, <<"untitled:">>) THEN getTextDocument(UriParse(name))
    ELSE IF has_value(resolveToRealPath(name))
    THEN getTextDocument(UriFile(value(resolveToRealPath(name))))
    ELSE nullopt

\* SourceNode::sourceCodeType: a module, or a script that is an entry point
sourceCodeType(node) ==
    IF node.className = "ModuleScript" THEN "Module" ELSE "Script"

\* sourceCodeTypeFromPath: the kind the name of the file shows
sourceCodeTypeFromPath(path) ==
    IF path # <<>> /\ Last(path) \in {"a.server.luau", "a.client.luau"}
    THEN "Script" ELSE "Module"

\* std::filesystem::path::extension
extension(p) ==
    IF p = <<>> \/ Last(p) = Sep \/ ExtensionStart(Last(p)) = 0 THEN ""
    ELSE SubSeq(Last(p), ExtensionStart(Last(p)), Len(Last(p)))

\* jsonValueToLuau(json::parse(text)) for the texts that are JSON;
\* json::parse throws on every other text
JsonAsLuau == [text \in {"{\"a\":1}"} |-> "{a = 1}"]

\* a version of readSource that asks the editor only when the disk has no
\* such file
readSourceDiskFirst(name) ==
    LET realFileName == value(resolveToRealPath(name))
        textDocument == getTextDocumentFromModuleName(name)
    IN  IF ~has_value(resolveToRealPath(name)) THEN nullopt
        ELSE IF has_value(readFile(realFileName))
        THEN Some([source |-> value(readFile(realFileName)), type |-> "Module"])
        ELSE IF has_value(textDocument)
        THEN Some([source |-> value(textDocument), type |-> "Module"])
        ELSE nullopt

\* readSource(name) (lines 138-186)
readSource(name) ==
    LET sourceNode == getSourceNodeFromVirtualPath(name)
        filePath == getRealPathFromSourceNode(value(sourceNode))
        realFileName == IF isVirtualPath(name) THEN value(filePath) ELSE name
        sourceType == IF isVirtualPath(name) THEN sourceCodeType(Deref(value(sourceNode)))
                      ELSE sourceCodeTypeFromPath(realFileName)
        textDocument == getTextDocumentFromModuleName(name)
        fromDisk == readFile(realFileName)
    IN  IF isVirtualPath(name) /\ ~has_value(sourceNode) THEN nullopt
        ELSE IF isVirtualPath(name) /\ ~has_value(filePath) THEN nullopt
        ELSE IF has_value(textDocument)
        THEN Some([source |-> value(textDocument), type |-> sourceType])
        ELSE IF ~has_value(fromDisk) THEN nullopt
        ELSE IF extension(realFileName) = ".json"
        THEN IF value(fromDisk) \in DOMAIN JsonAsLuau
             THEN Some([source |-> "--!strict\nreturn " \o JsonAsLuau[value(fromDisk)],
                        type |-> sourceType])
             ELSE nullopt
        ELSE Some([source |-> value(fromDisk), type |-> sourceType])

\* readSource(name), the whole call
ReadSource(name) ==
    /\ last' = [op |-> "readSource", name |-> name, result |-> readSource(name)]
    /\ UNCHANGED <<rootSourceNode, virtualPathsToSourceNodes, realPathsToSourceNodes,
                   pluginInfo, denied, allocated, pc, pending, client, disk,
                   configCache, configErrors, published, managedFiles>>

\* the sourcemap loaded when sources are read: A is a script, B a file of
\* structured data, C is no file
A_Script == <<"src", Sep, "a.luau">>

B_Data == <<".", Sep, "src", Sep, "data.json">>

LoadSourceMap ==
    [ok |-> TRUE,
     nodes |-> NodesOf(<<0, 1, 1, 1>>, [className |-> "DataModel", filePath |-> nullopt],
                       [i \in 2..4 |-> <<(<<"A", "B", "C">>)[i - 1]>>],
                       [i \in 2..4 |-> (<<Some(A_Script), Some(B_Data), nullopt>>)[i - 1]])]

Untitled == <<"untitled:", "Untitled-1">>

\* the names readSource is asked for
SourceNames ==
    { <<"game", Sep, "A">>, <<"game", Sep, "B">>, <<"game", Sep, "C">>,
      <<"game", Sep, "Missing">>,
      <<Sep, "ws", Sep, "src", Sep, "a.luau">>,
      <<Sep, "ws", Sep, "src", Sep, "A.luau">>,
      <<Sep, "ws", Sep, "src", Sep, "data.json">>,
      Untitled }

\* what the two files can hold on the disk
SourceDisks ==
    { OnDisk(contents, {<<Sep, "ws">>, <<Sep, "ws", Sep, "src">>}) :
        contents \in
          UNION { [files -> {"return 1", "{\"a\":1}", "{"}] :
                    files \in SUBSET { <<Sep, "ws", Sep, "src", Sep, "a.luau">>,
                                       <<Sep, "ws", Sep, "src", Sep, "data.json">> } } }

\* the documents the editor can have open, each under the key its uri has
OpenKeys ==
    { UriFile(PathJoin(RootFsPath, A_Script)),
      UriFile(PathJoin(RootFsPath, B_Data)),
      UriFile(<<Sep, "ws", Sep, "src", Sep, "data.json">>),
      UriParse(Untitled) }

InitLoad ==
    /\ pluginInfo = FALSE
    /\ denied = {}
    /\ LET st == SourceMapUpdate([tree |-> NoTree, v |-> EmptyMap, r |-> EmptyMap],
                                 LoadSourceMap, 1, pluginInfo, denied)
       IN  /\ rootSourceNode = st.tree
           /\ virtualPathsToSourceNodes = st.v
           /\ realPathsToSourceNodes = st.r
    /\ allocated = 1
    /\ pc = "idle"
    /\ pending = <<>>
    /\ client = NoClient
    /\ \E files \in SourceDisks, caseInsensitive \in BOOLEAN :
          disk = [files EXCEPT !.caseInsensitive = caseInsensitive]
    /\ last = NoCall
    /\ configCache = EmptyMap
    /\ configErrors = <<>>
    /\ published = EmptyMap
    /\ \E keys \in SUBSET OpenKeys : managedFiles = [key \in keys |-> "return 2"]

\* one source is read in a behaviour
NextLoad ==
    /\ last = NoCall
    /\ \E name \in SourceNames : ReadSource(name)

SpecLoad == InitLoad /\ [][NextLoad]_vars

\* ----------------------------------------------------- claims on the tree
\* the last call was an updateSourceMap that built a tree
Rebuilt == last.op = "updateSourceMap" /\ last.sourceMapContents.ok

\* the names a caller can ask the real-path index for
RealNames ==
    ScriptFilePaths
    \cup { PathJoin(RootFsPath, f) : f \in ScriptFilePaths }
    \cup { WeaklyCanonical(PathJoin(RootFsPath, f)) : f \in ScriptFilePaths }

\* C1: a rebuild with a malformed sourcemap leaves the tree and both indexes
\* as they were: every lookup by virtual path and by real path that found a
\* node before the call finds the same node after it.
C1_MalformedRebuildKeepsLookups ==
    [][ updateSourceMap(Malformed) =>
          /\ rootSourceNode' = rootSourceNode
          /\ \A name \in DOMAIN virtualPathsToSourceNodes :
                getSourceNodeFromVirtualPath(name)' = getSourceNodeFromVirtualPath(name)
          /\ \A name \in RealNames :
                has_value(getSourceNodeFromRealPath(name)) =>
                    getSourceNodeFromRealPath(name)' = getSourceNodeFromRealPath(name)
      ]_vars

\* C2: after a rebuild that succeeded, looking up the virtual path of any
\* node of the tree finds that node, and looking up the real path of any
\* node with a script file finds that node.
C2_EveryNodeIsFoundByItsPaths ==
    Rebuilt =>
        \A n \in TreeNodes :
            /\ getSourceNodeFromVirtualPath(getVirtualPathFromSourceNode(n)) = Some(n)
            /\ has_value(getRealPathFromSourceNode(n)) =>
                  getSourceNodeFromRealPath(value(getRealPathFromSourceNode(n))) = Some(n)

\* C3: whatever a lookup running between two steps of a rebuild sees is one
\* whole generation, the old tree with its indexes or the new tree with its
\* indexes: never cleared or half-filled indexes beside a tree.
C3_LookupsSeeOneGeneration ==
    CompleteGeneration(rootSourceNode, virtualPathsToSourceNodes, realPathsToSourceNodes)

\* a call that ran to its end step by step leaves what the whole call leaves
StepsBuildACompleteGeneration ==
    (Idle /\ Rebuilt) =>
        CompleteGeneration(rootSourceNode, virtualPathsToSourceNodes, realPathsToSourceNodes)

\* ------------------------------------------------ claims on resolveModule
Resolved == last.op = "resolveModule"

Script == [kind |-> "Global", name |-> "script"]

\* the last call resolved node on a context that is there
ResolvedOn(kind) == Resolved /\ last.node.kind = kind /\ has_value(last.context)

\* the last call was a method call with a literal string as first argument
ResolvedMethodCall ==
    /\ ResolvedOn("Call")
    /\ last.node.self
    /\ Len(last.node.args) >= 1
    /\ last.node.args[1].kind = "ConstantString"

\* C4: for every node with a real path, the real path its virtual path
\* resolves to, taken as the context of `script`, resolves to the virtual
\* path of the node again.
C4_RoundTrip ==
    Rebuilt =>
        \A n \in TreeNodes :
            has_value(getRealPathFromSourceNode(n)) =>
                LET virtualPath == getVirtualPathFromSourceNode(n)
                    realPath == resolveToRealPath(virtualPath)
                IN  /\ has_value(realPath)
                    /\ resolveModule(Some(ModuleInfo(value(realPath), FALSE)), Script, <<>>)
                         = {Returned(Some(ModuleInfo(virtualPath, FALSE)))}

\* C5: resolveModule returns for every expression and every context, a null
\* context too; `script` gives the virtual path of the context when the
\* context has one, and nothing otherwise.
C5_ResolutionNeverFaults ==
    Resolved =>
        /\ last.outcome = "returned"
        /\ last.node = Script =>
              last.result =
                 IF has_value(last.context)
                    /\ has_value(resolveToVirtualPath(value(last.context).name))
                 THEN Some(ModuleInfo(value(resolveToVirtualPath(value(last.context).name)),
                                      FALSE))
                 ELSE nullopt

IsParentNavigation == ResolvedOn("IndexName") /\ last.node.index = <<"Parent">>

\* C6: .Parent gives the path one level above the context, and nothing when
\* the context has no level above it.
C6_ParentNavigation ==
    IsParentNavigation =>
        last.result =
            IF has_value(getParentPath(value(last.context).name))
            THEN Some(ModuleInfo(value(getParentPath(value(last.context).name)),
                                 value(last.context).optional))
            ELSE nullopt

\* the last call was a named child access or an indexed access with a
\* literal string key, and ChildName is the name asked for
IsChildAccess ==
    \/ ResolvedOn("IndexName") /\ last.node.index # <<"Parent">>
    \/ ResolvedOn("IndexExpr") /\ last.node.index.kind = "ConstantString"

ChildName ==
    IF last.node.kind = "IndexName" THEN last.node.index ELSE last.node.index.value

\* C7 as claimed: the child is under the context, with a local-user prefix of
\* the context rewritten to its shared container.
C7_ChildAccessRemapsPrefix ==
    IsChildAccess =>
        last.result = Some(ModuleInfo(
            mapContextByPrefix(value(last.context).name) \o <<Sep>> \o ChildName,
            value(last.context).optional))

\* the shared containers of the three views of the local user
SharedContainers ==
    [ view \in { LocalPlayer \o <<Sep, "PlayerScripts">>,
                 LocalPlayer \o <<Sep, "PlayerGui">>,
                 LocalPlayer \o <<Sep, "StarterGear">> } |->
        IF view = LocalPlayer \o <<Sep, "PlayerScripts">>
        THEN <<"game", Sep, "StarterPlayer", Sep, "StarterPlayerScripts">>
        ELSE IF view = LocalPlayer \o <<Sep, "PlayerGui">>
        THEN <<"game", Sep, "StarterGui">>
        ELSE <<"game", Sep, "StarterPack">> ]

\* C7: the child is under the context, and under the shared container when
\* the context is exactly one of the three views of the local user; a longer
\* path that begins with a view is left as it is.
C7_ChildAccessRemapsExactContext ==
    IsChildAccess =>
        LET name == value(last.context).name
            remapped == IF name \in DOMAIN SharedContainers
                        THEN SharedContainers[name] ELSE name
        IN  last.result = Some(ModuleInfo(remapped \o <<Sep>> \o ChildName,
                                          value(last.context).optional))

\* Scenario C, and a child of a path below a view
C7_Witness ==
    /\ IsChildAccess
    /\ last.context = Some(ModuleInfo(LocalPlayer \o <<Sep, "PlayerGui">>, TRUE))
    /\ last.result = Some(ModuleInfo(<<"game", Sep, "StarterGui", Sep, "Frame">>, TRUE))

\* C8: GetService with a literal string gives game/<argument> when the
\* context is game, and nothing on any other context or on none.
C8_ServiceLookupOnlyOnRoot ==
    /\ (ResolvedMethodCall /\ last.node.func = "GetService") =>
          last.result =
             IF value(last.context).name = Game
             THEN Some(ModuleInfo(<<"game", Sep>> \o last.node.args[1].value, FALSE))
             ELSE nullopt
    /\ (Resolved /\ last.node.kind = "Call" /\ last.node.func = "GetService"
            /\ ~has_value(last.context)) =>
          last.result = nullopt

C8_Witness ==
    /\ ResolvedMethodCall
    /\ last.node.func = "GetService"
    /\ last.context = Some(ModuleInfo(Game, FALSE))
    /\ last.result = Some(ModuleInfo(<<"game", Sep, "Frame">>, FALSE))

\* what named child access and indexed access give for a name on a context
NamedChild(context, name) ==
    resolveModule(context, [kind |-> "IndexName", index |-> name], <<>>)

IndexedChild(context, name) ==
    resolveModule(context, [kind |-> "IndexExpr", index |-> ConstantString(name)], <<>>)

\* C9: WaitForChild, and FindFirstChild with one argument, give what named
\* child access gives for the same name on the same context; FindFirstChild
\* with more arguments gives nothing.
C9_ChildLookupCalls ==
    ResolvedMethodCall =>
        LET name == last.node.args[1].value
            size == Len(last.node.args)
        IN  /\ (last.node.func = "WaitForChild"
                   \/ (last.node.func = "FindFirstChild" /\ size = 1)) =>
                  /\ {Returned(last.result)} = IndexedChild(last.context, name)
                  /\ name # <<"Parent">> =>
                        {Returned(last.result)} = NamedChild(last.context, name)
                  /\ has_value(last.result)
            /\ (last.node.func = "FindFirstChild" /\ size > 1) =>
                  last.result = nullopt

C9_Witness ==
    /\ ResolvedMethodCall
    /\ last.node.func = "FindFirstChild"
    /\ Len(last.node.args) = 1
    /\ last.context = Some(ModuleInfo(LocalPlayer \o <<Sep, "PlayerGui">>, FALSE))
    /\ last.result = Some(ModuleInfo(<<"game", Sep, "StarterGui", Sep, "Frame">>, FALSE))

\* the directory aliases that str starts with
MatchingAliases(str) ==
    { alias \in DOMAIN client.directoryAliases : startsWith(str, alias) }

LongestAlias(str) ==
    CHOOSE alias \in MatchingAliases(str) :
        \A other \in MatchingAliases(str) : Len(other) <= Len(alias)

\* C10: a string require takes the file alias that is the string; else the
\* longest directory alias the string starts with, whatever order the map
\* of the aliases is gone through in; else the string under the base path.
C10_LongestDirectoryAliasWins ==
    (Resolved /\ last.node.kind = "ConstantString" /\ client.present) =>
        LET str == last.node.value
            basePath == getRequireBasePath(IF has_value(last.context)
                                           THEN Some(value(last.context).name)
                                           ELSE nullopt)
            filePath ==
                IF str \in DOMAIN client.fileAliases
                THEN resolvePath(client.fileAliases[str])
                ELSE IF MatchingAliases(str) # {}
                THEN AliasedPath(client.directoryAliases[LongestAlias(str)],
                                 LongestAlias(str), str, FALSE)
                ELSE PathJoin(basePath, str)
        IN  last.result = Some(ModuleInfo(WithFileEnding(filePath), FALSE))

\* ------------------------------------------------- claims on the rebuild
\* the virtual paths of the nodes of a tree, node by node
VirtualPathsOf(tree) == [i \in DOMAIN tree.nodes |-> tree.nodes[i].virtualPath]

\* C17: an updateSourceMap of the text the call before it was given, which
\* built a tree, leaves the same keys in the virtual-path index and in the
\* real-path index, and gives every node the same virtual path.
C17_RebuildIsIdempotent ==
    [][ (Rebuilt /\ updateSourceMap(last.sourceMapContents)) =>
          /\ DOMAIN virtualPathsToSourceNodes' = DOMAIN virtualPathsToSourceNodes
          /\ DOMAIN realPathsToSourceNodes' = DOMAIN realPathsToSourceNodes
          /\ VirtualPathsOf(rootSourceNode') = VirtualPathsOf(rootSourceNode)
      ]_vars

\* the second of two calls with the same sourcemap has built a tree with a
\* child and a script file
C17_Witness ==
    /\ Rebuilt
    /\ last.repeated
    /\ rootSourceNode.gen = 2
    /\ Len(rootSourceNode.nodes) >= 2
    /\ DOMAIN realPathsToSourceNodes # {}

\* the nodes of the tree that have a script file
ScriptNodes == { n \in TreeNodes : has_value(getScriptFilePath(Deref(n))) }

\* C18: when canonicalization fails for the script file of a node, the key
\* the rebuild wrote is the uncanonicalized join of the workspace folder
\* with the script file path, and a lookup of that join, whose
\* canonicalization fails too, finds a node with that script file.
C18_SameCanonicalizationFallback ==
    Rebuilt =>
        \A n \in ScriptNodes :
            LET joined == PathJoin(RootFsPath, value(getScriptFilePath(Deref(n))))
                found == getSourceNodeFromRealPath(joined)
            IN  CanonicalFails(joined, denied) =>
                    /\ joined \in DOMAIN realPathsToSourceNodes
                    /\ has_value(found)
                    /\ getRealPathFromSourceNode(value(found)) = Some(joined)

\* C19: between two calls of updateSourceMap, whether they built a tree or
\* not, every entry of the two indexes points to a node of the current tree.
C19_IndexesPointIntoCurrentTree ==
    Idle =>
        /\ \A name \in DOMAIN virtualPathsToSourceNodes :
              Alive(virtualPathsToSourceNodes[name])
        /\ \A name \in DOMAIN realPathsToSourceNodes :
              Alive(realPathsToSourceNodes[name])

\* a second tree has replaced the first, and both indexes have entries
C19_Witness ==
    /\ Idle
    /\ rootSourceNode.gen = 2
    /\ DOMAIN realPathsToSourceNodes # {}
    /\ Cardinality(DOMAIN virtualPathsToSourceNodes) >= 2

\* ------------------------------------------- claims on the config cascade
Queried == last.op = "getConfig"

\* the directory of the file a name resolves to, as the filesystem knows it
HasDirectory(name) ==
    /\ has_value(resolveToRealPath(name))
    /\ has_relative_path(value(resolveToRealPath(name)))
    /\ has_parent_path(value(resolveToRealPath(name)))

DirectoryOf(name) == WeaklyCanonical(parent_path(value(resolveToRealPath(name))))

\* every record of the cache is what a merge of the files as they are gives
CacheIsCurrent ==
    \A path \in DOMAIN configCache :
        configCache[path] = readConfigRec([ConfigState EXCEPT !.cache = EmptyMap], path).result

\* the merged record a query through a directory returns
RecordOf(directory) == readConfigRec(ConfigState, directory).result

\* a record with the config file of a directory overlaid, if it has one
OwnFileOverlaid(base, directory) ==
    LET contents == readFile(PathJoin(directory, <<kConfigName>>))
    IN  IF has_value(contents) THEN parseConfig(value(contents), base).result
        ELSE base

\* C11: with no stale record in the cache, the record getConfig returns for
\* a module in a directory that has a parent is the merged record of the
\* parent directory with the directory's own config file overlaid.
C11_ConfigCascade ==
    (Queried /\ HasDirectory(last.name) /\ CacheIsCurrent) =>
        LET directory == DirectoryOf(last.name)
        IN  directory # <<Sep>> =>
                last.result = OwnFileOverlaid(RecordOf(parent_path(directory)), directory)

\* an entry of the cache is gone after the step
CacheShrinks == \E path \in DOMAIN configCache : path \notin DOMAIN configCache'

\* an entry of the error list is gone after the step
ErrorsShrink ==
    \/ Len(configErrors') < Len(configErrors)
    \/ SubSeq(configErrors', 1, Len(configErrors)) # configErrors

\* C12: clearConfigCache empties the cache and the error list, and a step
\* that takes an entry out of one of the two leaves both empty.
C12_ClearedOnlyTogether ==
    [][ /\ clearConfigCache => (configCache' = EmptyMap /\ configErrors' = <<>>)
        /\ (CacheShrinks \/ ErrorsShrink) =>
              (configCache' = EmptyMap /\ configErrors' = <<>>)
      ]_vars

\* clearConfigCache has emptied a cache and an error list that had entries
C12_Witness ==
    /\ last.op = "clearConfigCache"
    /\ last.hadCache
    /\ last.hadErrors
    /\ configCache = EmptyMap
    /\ configErrors = <<>>

\* The cascade computed from the config files as they are: the default, then
\* the file of every directory on the way down to path, with no cache.
RECURSIVE MergedFromFiles(_)
MergedFromFiles(path) ==
    OwnFileOverlaid(IF has_relative_path(path) /\ has_parent_path(path)
                    THEN MergedFromFiles(parent_path(path))
                    ELSE defaultConfig,
                    path)

\* the config files on the way down to path
RECURSIVE ConfigPathsTo(_)
ConfigPathsTo(path) ==
    Append(IF has_relative_path(path) /\ has_parent_path(path)
           THEN ConfigPathsTo(parent_path(path))
           ELSE <<>>,
           PathJoin(path, <<kConfigName>>))

\* C13: the first getConfig after a clearConfigCache, with or without
\* changes of files before it, returns the cascade of the config files as
\* they are when it is called, and reads every file of the cascade anew:
\* it takes no record from before the clearConfigCache.
C13_QueryAfterInvalidate ==
    (Queried /\ last.invalidated) =>
        IF HasDirectory(last.name)
        THEN LET path == parent_path(value(resolveToRealPath(last.name)))
             IN  /\ last.result = MergedFromFiles(path)
                 /\ last.reads = ConfigPathsTo(path)
        ELSE last.result = defaultConfig /\ last.reads = <<>>

\* the first query after a clearConfigCache returned the settings of two
\* config files, and the cache had records before the clearConfigCache
C13_Witness ==
    /\ Queried
    /\ last.invalidated
    /\ last.result = [o \in OptionNames |-> IF o = "X" THEN 2 ELSE 1]
    /\ Len(last.reads) >= 3

\* the config file is there and parseConfig stops in it with an error
FailsToParse(configPath) ==
    /\ has_value(readFile(configPath))
    /\ has_value(value(readFile(configPath)).error)

ErrorOf(configPath) == value(value(readFile(configPath)).error)

\* the places of a sequence whose element satisfies Test
Places(seq, Test(_)) == { i \in DOMAIN seq : Test(seq[i]) }

\* C14: for every config file a getConfig read that fails to parse: with a
\* client, one diagnostic with the error is published once for the file and
\* nothing is added to the error list; without a client, one pair of the
\* config path and the error is added to the error list.
C14_ErrorOnOneChannel ==
    Queried =>
        \A i \in DOMAIN last.reads :
            LET configPath == last.reads[i]
                publishes == Places(last.publishes,
                                    LAMBDA p : p.uri = UriFile(configPath))
                kept == Places(last.kept, LAMBDA e : e[1] = configPath)
            IN  FailsToParse(configPath) =>
                    IF client.present
                    THEN /\ Cardinality(publishes) = 1
                         /\ \A k \in publishes :
                               last.publishes[k].diagnostics = <<ErrorOf(configPath)>>
                         /\ last.kept = <<>>
                    ELSE /\ Cardinality(kept) = 1
                         /\ \A k \in kept :
                               last.kept[k] = <<configPath, ErrorOf(configPath)>>
                         /\ last.publishes = <<>>

\* a getConfig with a client read two config files that fail to parse
C14_Witness ==
    /\ Queried
    /\ client.present
    /\ Cardinality({ i \in DOMAIN last.reads : FailsToParse(last.reads[i]) }) = 2

\* the same without a client
C14_WitnessHeadless ==
    /\ Queried
    /\ ~client.present
    /\ Len(last.kept) = 2

\* the config file is there and parses
Parses(configPath) ==
    /\ has_value(readFile(configPath))
    /\ ~has_value(value(readFile(configPath)).error)

\* C15: with a client, after a getConfig that read a config file and parsed
\* it, the diagnostics the client holds for that file are the empty list,
\* whatever was published for the file before.
C15_SuccessSupersedesDiagnostic ==
    (Queried /\ client.present) =>
        \A i \in DOMAIN last.reads :
            Parses(last.reads[i]) =>
                /\ UriFile(last.reads[i]) \in DOMAIN published
                /\ published[UriFile(last.reads[i])].latest = <<>>

\* an error was published for a config file; the file was corrected, the
\* cache cleared, and the next getConfig through its directory replaced the
\* diagnostic by the empty list
C15_Witness ==
    /\ Queried
    /\ client.present
    /\ last.invalidated
    /\ \E i \in DOMAIN last.reads :
          /\ Parses(last.reads[i])
          /\ published[UriFile(last.reads[i])] =
                [latest |-> <<>>, previous |-> Some(<<"syntax error">>)]

\* the directory getConfig starts the cascade of a name at has a record
Cached(name) ==
    /\ HasDirectory(name)
    /\ parent_path(value(resolveToRealPath(name))) \in DOMAIN configCache

\* C20: a step that is not a clearConfigCache, a change of a config file
\* included, leaves every record of the cache as it is; a getConfig reads
\* the config file of no directory that has a record; and a getConfig for a
\* module of a directory that has a record returns that record, reads no
\* file, publishes nothing and adds nothing to the error list.
C20_CacheIsStable ==
    [][ /\ clearConfigCache
           \/ \A path \in DOMAIN configCache :
                 /\ path \in DOMAIN configCache'
                 /\ configCache'[path] = configCache[path]
        /\ \A name \in ConfigNames :
              GetConfig(name) =>
                /\ \A path \in DOMAIN configCache :
                      \A i \in DOMAIN last'.reads :
                          last'.reads[i] # PathJoin(path, <<kConfigName>>)
                /\ Cached(name) =>
                      /\ last'.result =
                            configCache[parent_path(value(resolveToRealPath(name)))]
                      /\ last'.reads = <<>>
                      /\ last'.publishes = <<>>
                      /\ last'.kept = <<>>
                      /\ published' = published
                      /\ configErrors' = configErrors
      ]_vars

\* a getConfig returned the record of the cache and read no file, though
\* the config files have changed and a merge of them gives another record
C20_Witness ==
    /\ Queried
    /\ Cached(last.name)
    /\ last.reads = <<>>
    /\ last.result # MergedFromFiles(parent_path(value(resolveToRealPath(last.name))))

\* --------------------------------------------- claims on loading a source
Loaded == last.op = "readSource"

\* the name is a real path, or the virtual path of a node with a script file
ResolvesToFile(name) == has_value(resolveToRealPath(name))

\* the editor has the file of the name open
IsOpen(name) == has_value(getTextDocument(UriFile(value(resolveToRealPath(name)))))

\* C16: readSource of a name that resolves to a file the editor has open
\* returns the text of the editor, whatever the disk holds; readSource of a
\* virtual path with no node, or of a node with no script file, returns no
\* source.
C16_OverlayWins ==
    Loaded =>
        /\ (ResolvesToFile(last.name) /\ IsOpen(last.name)) =>
              /\ has_value(last.result)
              /\ value(last.result).source =
                    value(getTextDocument(UriFile(value(resolveToRealPath(last.name)))))
        /\ (isVirtualPath(last.name) /\ ~ResolvesToFile(last.name)) =>
              last.result = nullopt

\* the editor has B open, whose file on the disk is no JSON, and readSource
\* of its virtual path returned the text of the editor
C16_Witness ==
    /\ Loaded
    /\ last.name = <<"game", Sep, "B">>
    /\ IsOpen(last.name)
    /\ readFile(value(resolveToRealPath(last.name))) = Some("{")
    /\ last.result = Some([source |-> "return 2", type |-> "Module"])

====
